---- MODULE Spec2Model ----
(***************************************************************************)
(* A model of ContextHandler (the per-cluster proxy port, API target,      *)
(* proxy process and prometheus resolution) and of ClusterStore (the       *)
(* persisted cluster records).  Every async method is cut at its awaits:   *)
(* the synchronous part up to the first await is one action, each          *)
(* continuation is another, and any other call or continuation may run in  *)
(* between (single-threaded, cooperative).  The methods of ClusterStore    *)
(* are synchronous, one action each.                                       *)
(***************************************************************************)
EXTENDS Integers, Sequences, FiniteSets, Bags, TLC

VARIABLES
  proxyPort,          \* this.proxyPort: 0 while unset (falsy), else the port
  proxyServer,        \* this.proxyServer: 0 while null, else an index of procs
  apiTarget,          \* this.apiTarget: NoTarget while unset, else a descriptor
  calls,              \* the calls in flight on the handler (suspended at an await): a bag of call records
  procs,              \* every KubeAuthProxy constructed so far: its port and state
  ncalls,             \* number of calls started so far
  ntargets,           \* number of descriptors built by newApiTarget so far
  last,               \* history: the call that ended most recently, as it ended
  cleanEnsure,        \* history: an ensureServer() completed, no stopServer() since it began
  lastStopped,        \* history: the process stopServer() exited, no process constructed since
  firstTarget,        \* history: the descriptor the first getApiTarget(false) to complete returned
  prometheusProvider, \* this.prometheusProvider: "" while unset (falsy), else a provider id
  prometheusPath,     \* this.prometheusPath: "" while null, else "ns/services/svc:port"
  clusterName,        \* this.clusterName
  prefs,              \* history: the preferences setClusterPreferences() applied last
  replaced,           \* history: the path configured by the preferences the last
                      \*   setClusterPreferences() replaced, when those it applied
                      \*   configure none ("" otherwise)
  pcalls,             \* the prometheus calls in flight (awaiting their probes): a bag of records
  plast,              \* history: the prometheus call that ended most recently, as it ended
  nprobes,            \* number of provider probes started so far
  resolvedBy,         \* history: how a resolution last succeeded since the preferences were applied
  store,              \* ClusterStore.store: what the persisted store holds
  lastOp              \* history: the ClusterStore operation that ran last, its argument and result

proxyVars == <<proxyPort, proxyServer, apiTarget, calls, procs, ncalls, ntargets,
               last, cleanEnsure, lastStopped, firstTarget>>

promVars == <<prometheusProvider, prometheusPath, clusterName, prefs, replaced, pcalls,
              plast, nprobes, resolvedBy>>

storeVars == <<store, lastOp>>

vars == <<proxyVars, promVars, storeVars>>

(* Bounds of the model. *)
MaxCalls == 3
MaxPort == 2
MaxProbes == 6
MaxInFlight == 2
MaxBatch == 2

Ports == 1..MaxPort

(* The errors getFreePort() can reject with. *)
PortErrors == {"EADDRINUSE", "EACCES"}

NoTarget == [id |-> 0, timeout |-> 0, port |-> 0]

\* const timeout = isWatchRequest ? 4 * 60 * 60 * 1000 : 30000
TimeoutOf(isWatchRequest) == IF isWatchRequest THEN 4 * 60 * 60 * 1000 ELSE 30000

(***************************************************************************)
(* A call record.  op/watch: the method and its argument; pc: where the    *)
(* call is suspended; port: the value resolveProxyPort() gave this call;   *)
(* proc: the process this call constructed; target: the descriptor it      *)
(* returned.  The remaining fields are history: afterEnsure/afterStop =    *)
(* what the lifecycle history was when this ensureServer() began;          *)
(* stopSeen = stopServer() was called while this ensureServer() was in     *)
(* flight; afterTarget = the id of firstTarget when the call began (0 if   *)
(* no getApiTarget(false) had completed); err = the error the call failed  *)
(* with.  A call that has ended leaves the bag and becomes last.           *)
(***************************************************************************)
NewCall(op, watch) ==
  [op |-> op, watch |-> watch, pc |-> "start", port |-> 0, proc |-> 0,
   target |-> NoTarget, afterEnsure |-> FALSE, afterStop |-> 0, stopSeen |-> FALSE,
   afterTarget |-> firstTarget.id, err |-> ""]

NoCall ==
  [op |-> "none", watch |-> FALSE, pc |-> "start", port |-> 0, proc |-> 0,
   target |-> NoTarget, afterEnsure |-> FALSE, afterStop |-> 0, stopSeen |-> FALSE,
   afterTarget |-> 0, err |-> ""]

InFlight == BagToSet(calls)

(* The bag of calls with call c replaced by d, and with call c gone. *)
Swap(c, d) == (calls (-) SetToBag({c})) (+) SetToBag({d})

Drop(c) == calls (-) SetToBag({c})

InitProxy ==
  /\ proxyPort = 0
  /\ proxyServer = 0
  /\ apiTarget = NoTarget
  /\ calls = EmptyBag
  /\ procs = <<>>
  /\ ncalls = 0
  /\ ntargets = 0
  /\ last = NoCall
  /\ cleanEnsure = FALSE
  /\ lastStopped = 0
  /\ firstTarget = NoTarget

(***************************************************************************)
(* resolveProxyPort(), synchronous part: the memoized port if set, else    *)
(* getFreePort() is invoked and the call suspends on it.                   *)
(***************************************************************************)
ResolveProxyPortSync(c) ==
  IF proxyPort # 0
    THEN [c EXCEPT !.pc = "gotPort", !.port = proxyPort]
    ELSE [c EXCEPT !.pc = "allocating"]

(* A call begins: it runs to its first await, or to its end. *)
Begin(c) ==
  /\ ncalls < MaxCalls
  /\ ncalls' = ncalls + 1
  /\ IF c.pc = "done"
       THEN /\ last' = c
            /\ calls' = calls
       ELSE /\ last' = last
            /\ calls' = calls (+) SetToBag({c})

(* Call c ends as record d. *)
End(c, d) ==
  /\ last' = d
  /\ calls' = Drop(c)

\* init(): await this.resolveProxyPort(); with the port memoized nothing is left to do
StartInit ==
  /\ LET c == ResolveProxyPortSync(NewCall("init", FALSE)) IN
       Begin(IF c.pc = "gotPort" THEN [c EXCEPT !.pc = "done"] ELSE c)
  /\ UNCHANGED <<promVars, storeVars>>
  /\ UNCHANGED <<firstTarget, proxyPort, proxyServer, apiTarget, procs, ntargets,
                 cleanEnsure, lastStopped>>

\* getApiTarget(isWatchRequest): the cached target, or newApiTarget(timeout)
StartGetApiTarget(isWatchRequest) ==
  /\ LET c == NewCall("getApiTarget", isWatchRequest) IN
       IF apiTarget # NoTarget /\ ~isWatchRequest
         THEN Begin([c EXCEPT !.pc = "done", !.target = apiTarget])
         ELSE Begin(ResolveProxyPortSync(c))
  /\ UNCHANGED <<promVars, storeVars>>
  /\ UNCHANGED <<firstTarget, proxyPort, proxyServer, apiTarget, procs, ntargets,
                 cleanEnsure, lastStopped>>

\* ensureServer(): nothing when a handle exists, else resolveProxyPort() first
StartEnsureServer ==
  /\ LET c == [NewCall("ensureServer", FALSE) EXCEPT
                 !.afterEnsure = cleanEnsure,
                 !.afterStop = lastStopped]
     IN IF proxyServer # 0
          THEN /\ Begin([c EXCEPT !.pc = "done"])
               /\ cleanEnsure' = TRUE
          ELSE /\ Begin(ResolveProxyPortSync(c))
               /\ cleanEnsure' = cleanEnsure
  /\ UNCHANGED <<promVars, storeVars>>
  /\ UNCHANGED <<firstTarget, proxyPort, proxyServer, apiTarget, procs, ntargets, lastStopped>>

\* serverPort = await getFreePort(); this.proxyPort = serverPort; return serverPort
AllocDone(c, p) ==
  /\ c.pc = "allocating"
  /\ proxyPort' = p
  /\ IF c.op = "init"
       THEN End(c, [c EXCEPT !.pc = "done", !.port = p])
       ELSE /\ calls' = Swap(c, [c EXCEPT !.pc = "gotPort", !.port = p])
            /\ last' = last
  /\ UNCHANGED <<promVars, storeVars>>
  /\ UNCHANGED <<firstTarget, proxyServer, apiTarget, procs, ncalls, ntargets, cleanEnsure,
                 lastStopped>>

(* resolveProxyPort() swallowing the error: it logs it and returns no port. *)
AllocFailSwallowed(c, error) ==
  /\ c.pc = "allocating"
  /\ IF c.op = "init"
       THEN End(c, [c EXCEPT !.pc = "done"])
       ELSE /\ calls' = Swap(c, [c EXCEPT !.pc = "gotPort"])
            /\ last' = last
  /\ UNCHANGED <<promVars, storeVars>>
  /\ UNCHANGED <<firstTarget, proxyPort, proxyServer, apiTarget, procs, ncalls, ntargets,
                 cleanEnsure, lastStopped>>

\* catch(error) { logger.error(error); throw(error) }: the caller fails with it
AllocFail(c, error) ==
  /\ c.pc = "allocating"
  /\ End(c, [c EXCEPT !.pc = "failed", !.err = error])
  /\ UNCHANGED <<promVars, storeVars>>
  /\ UNCHANGED <<firstTarget, proxyPort, proxyServer, apiTarget, procs, ncalls, ntargets,
                 cleanEnsure, lastStopped>>

(* getApiTarget() storing every descriptor it builds, watch or not. *)
ApiTargetReturnCachesAll(c) ==
  /\ c.pc = "gotPort"
  /\ c.op = "getApiTarget"
  /\ LET t == [id |-> ntargets + 1, timeout |-> TimeoutOf(c.watch),
               port |-> c.port] IN
       /\ ntargets' = ntargets + 1
       /\ apiTarget' = t
       /\ firstTarget' = IF ~c.watch /\ firstTarget = NoTarget THEN t ELSE firstTarget
       /\ End(c, [c EXCEPT !.pc = "done", !.target = t])
  /\ UNCHANGED <<promVars, storeVars>>
  /\ UNCHANGED <<proxyPort, proxyServer, procs, ncalls, cleanEnsure, lastStopped>>

\* newApiTarget(timeout) returns; if (!isWatchRequest) this.apiTarget = apiTarget
ApiTargetReturn(c) ==
  /\ c.pc = "gotPort"
  /\ c.op = "getApiTarget"
  /\ LET t == [id |-> ntargets + 1, timeout |-> TimeoutOf(c.watch),
               port |-> c.port] IN
       /\ ntargets' = ntargets + 1
       /\ apiTarget' = IF c.watch THEN apiTarget ELSE t
       /\ firstTarget' = IF ~c.watch /\ firstTarget = NoTarget THEN t ELSE firstTarget
       /\ End(c, [c EXCEPT !.pc = "done", !.target = t])
  /\ UNCHANGED <<promVars, storeVars>>
  /\ UNCHANGED <<proxyPort, proxyServer, procs, ncalls, cleanEnsure, lastStopped>>

\* this.proxyServer = new KubeAuthProxy(this.cluster, proxyPort, proxyEnv); run()
EnsureConstruct(c) ==
  /\ c.pc = "gotPort"
  /\ c.op = "ensureServer"
  /\ procs' = Append(procs, [port |-> c.port, state |-> "running"])
  /\ proxyServer' = Len(procs) + 1
  /\ calls' = Swap(c, [c EXCEPT !.pc = "running", !.proc = Len(procs) + 1])
  /\ lastStopped' = 0
  /\ UNCHANGED <<promVars, storeVars>>
  /\ UNCHANGED <<firstTarget, proxyPort, apiTarget, ncalls, ntargets, last, cleanEnsure>>

\* await this.proxyServer.run() completes
RunDone(c) ==
  /\ c.pc = "running"
  /\ End(c, [c EXCEPT !.pc = "done"])
  /\ cleanEnsure' = (cleanEnsure \/ ~c.stopSeen)
  /\ UNCHANGED <<promVars, storeVars>>
  /\ UNCHANGED <<firstTarget, proxyPort, proxyServer, apiTarget, procs, ncalls, ntargets,
                 lastStopped>>

StopSeen(c) == IF c.op = "ensureServer" THEN [c EXCEPT !.stopSeen = TRUE] ELSE c

(* stopServer() that signals the process to exit but keeps the handle. *)
StopServerKeepsHandle ==
  /\ IF proxyServer # 0
       THEN /\ procs' = [procs EXCEPT ![proxyServer].state = "exited"]
            /\ lastStopped' = proxyServer
       ELSE UNCHANGED <<procs, lastStopped>>
  /\ proxyServer' = proxyServer
  /\ cleanEnsure' = FALSE
  /\ calls' = BagOfAll(StopSeen, calls)
  /\ UNCHANGED <<promVars, storeVars>>
  /\ UNCHANGED <<firstTarget, proxyPort, apiTarget, ncalls, ntargets, last>>

\* stopServer(): if (this.proxyServer) { this.proxyServer.exit(); this.proxyServer = null }
StopServer ==
  /\ IF proxyServer # 0
       THEN /\ procs' = [procs EXCEPT ![proxyServer].state = "exited"]
            /\ proxyServer' = 0
            /\ lastStopped' = proxyServer
       ELSE UNCHANGED <<procs, proxyServer, lastStopped>>
  /\ cleanEnsure' = FALSE
  /\ calls' = BagOfAll(StopSeen, calls)
  /\ UNCHANGED <<promVars, storeVars>>
  /\ UNCHANGED <<firstTarget, proxyPort, apiTarget, ncalls, ntargets, last>>

(***************************************************************************)
(* Prometheus resolution.                                                  *)
(***************************************************************************)

(* prometheusProviders, the registered providers in declaration order; the
   registry itself is outside the sources at hand. *)
prometheusProviders == <<"lens", "helm", "operator">>

(* What provider id's probe answers when it finds its service. *)
ServiceOf(id) == [id |-> id, namespace |-> id \o "-ns", service |-> id \o "-svc", port |-> 9090]

NoService == [id |-> "", namespace |-> "", service |-> "", port |-> 0]

(* A default in another namespace and on another port. *)
DefaultServiceElsewhere == [id |-> "lens", namespace |-> "metrics", service |-> "prometheus", port |-> 9090]

\* return { id: "lens", namespace: "lens-metrics", service: "prometheus", port: 80 }
DefaultService == [id |-> "lens", namespace |-> "lens-metrics", service |-> "prometheus", port |-> 80]

contextName == "ctx"

(* A template literal's ${x}: an optional value is <<>> (undefined) or <<v>>. *)
TplStr(x) == IF x = <<>> THEN "undefined" ELSE x[1]

TplNum(x) == IF x = <<>> THEN "undefined" ELSE ToString(x[1])

\* `${service.namespace}/services/${service.service}:${service.port}`
PathOf(namespace, service, port) ==
  TplStr(namespace) \o "/services/" \o TplStr(service) \o ":" \o TplNum(port)

(* Preferences: type = prometheusProvider?.type ("" when absent); prometheus =
   <<>> when absent, else <<location>> whose fields are optional; clusterName
   "" when absent. *)
NoPrefs == [type |-> "", prometheus |-> <<>>, clusterName |-> ""]

FullLocation == [namespace |-> <<"monitoring">>, service |-> <<"prom">>, port |-> <<9090>>]

PartialLocation == [namespace |-> <<"monitoring">>, service |-> <<>>, port |-> <<9090>>]

PrefsSet ==
  { NoPrefs,
    [NoPrefs EXCEPT !.type = "helm"],
    [NoPrefs EXCEPT !.prometheus = <<FullLocation>>],
    [NoPrefs EXCEPT !.prometheus = <<PartialLocation>>],
    [NoPrefs EXCEPT !.type = "helm", !.prometheus = <<FullLocation>>],
    [NoPrefs EXCEPT !.clusterName = "prod"] }

\* this.prometheusProvider = clusterPreferences.prometheusProvider?.type
PrefProvider(p) == p.type

\* if (clusterPreferences && clusterPreferences.prometheus) ... else this.prometheusPath = null
PrefPath(p) ==
  IF p.prometheus # <<>>
    THEN LET prom == p.prometheus[1] IN PathOf(prom.namespace, prom.service, prom.port)
    ELSE ""

\* if (clusterPreferences && clusterPreferences.clusterName) ... else this.clusterName = this.contextName
PrefName(p) == IF p.clusterName # "" THEN p.clusterName ELSE contextName

(***************************************************************************)
(* A prometheus call record.  op: the method; pc: "probing", "done" or     *)
(* "failed"; provs: the providers it probes; results: per probe            *)
(* "pending", "absent" or "found"; svc/path/prov: what the call obtained   *)
(* and returned.  History: overtaken = a probe answered "found" after a    *)
(* later-listed probe had; prefType = the preferences' provider type when  *)
(* the call began; after = resolvedBy when the call began; peer = what the *)
(* first call of the same method to end while this one was in flight       *)
(* returned.                                                               *)
(***************************************************************************)
NewPCall(op) ==
  [op |-> op, pc |-> "start", provs |-> <<>>, results |-> <<>>, svc |-> NoService,
   path |-> "", prov |-> "", overtaken |-> FALSE, prefType |-> prefs.type,
   after |-> resolvedBy, peer |-> ""]

NoPCall ==
  [op |-> "none", pc |-> "start", provs |-> <<>>, results |-> <<>>, svc |-> NoService,
   path |-> "", prov |-> "", overtaken |-> FALSE, prefType |-> "", after |-> "none",
   peer |-> ""]

PInFlight == BagToSet(pcalls)

\* prometheusProviders.filter(p => p.id == this.prometheusProvider), or all of them
Candidates ==
  IF prometheusProvider # ""
    THEN SelectSeq(prometheusProviders, LAMBDA id : id = prometheusProvider)
    ELSE prometheusProviders

\* prometheusProviders.find(p => p.id === this.prometheusProvider): "" is undefined
FindProvider(id) ==
  IF \E i \in DOMAIN prometheusProviders : prometheusProviders[i] = id THEN id ELSE ""

(* resolvedPrometheusServices.filter(n => n)[0], the default when there is none:
   the picked provider is the one with the highest index among the found. *)
PickLastService(provs, results) ==
  LET found == {i \in DOMAIN results : results[i] = "found"} IN
    IF found = {} THEN DefaultService
    ELSE ServiceOf(provs[CHOOSE i \in found : \A j \in found : j <= i])

\* const service = resolvedPrometheusServices.filter(n => n)[0]; service or the default
PickService(provs, results) ==
  LET found == SelectSeq([i \in DOMAIN results |-> i], LAMBDA i : results[i] = "found") IN
    IF found # <<>> THEN ServiceOf(provs[found[1]]) ELSE DefaultService

(* getPrometheusService(), synchronous part: one probe per candidate is started. *)
StartProbing(c) ==
  LET provs == Candidates IN
    /\ nprobes + Len(provs) <= MaxProbes
    /\ BagCardinality(pcalls) < MaxInFlight
    /\ nprobes' = nprobes + Len(provs)
    /\ pcalls' = pcalls (+) SetToBag({[c EXCEPT !.pc = "probing", !.provs = provs,
                                                !.results = [i \in DOMAIN provs |-> "pending"]]})
    /\ plast' = plast

(* A call that returns without awaiting anything. *)
ReturnAtOnce(c) ==
  /\ plast' = [c EXCEPT !.pc = "done"]
  /\ UNCHANGED <<pcalls, nprobes>>

\* getPrometheusService() called on its own
StartGetPrometheusService ==
  /\ StartProbing(NewPCall("getPrometheusService"))
  /\ UNCHANGED <<prometheusProvider, prometheusPath, clusterName, prefs, replaced, resolvedBy>>
  /\ UNCHANGED <<proxyVars, storeVars>>

\* getPrometheusPath(): if (this.prometheusPath) return this.prometheusPath
StartGetPrometheusPath ==
  /\ LET c == NewPCall("getPrometheusPath") IN
       IF prometheusPath # ""
         THEN ReturnAtOnce([c EXCEPT !.path = prometheusPath])
         ELSE StartProbing(c)
  /\ UNCHANGED <<prometheusProvider, prometheusPath, clusterName, prefs, replaced, resolvedBy>>
  /\ UNCHANGED <<proxyVars, storeVars>>

\* getPrometheusProvider(): if (!this.prometheusProvider) { ... } return prometheusProviders.find(...)
StartGetPrometheusProvider ==
  /\ LET c == NewPCall("getPrometheusProvider") IN
       IF prometheusProvider # ""
         THEN ReturnAtOnce([c EXCEPT !.prov = FindProvider(prometheusProvider)])
         ELSE StartProbing(c)
  /\ UNCHANGED <<prometheusProvider, prometheusPath, clusterName, prefs, replaced, resolvedBy>>
  /\ UNCHANGED <<proxyVars, storeVars>>

\* provider.getPrometheusService(apiClient) resolves: r is "absent" or "found"
ProbeReturn(c, i, r) ==
  /\ c.results[i] = "pending"
  /\ pcalls' = (pcalls (-) SetToBag({c})) (+)
                 SetToBag({[c EXCEPT !.results[i] = r,
                                     !.overtaken = c.overtaken \/
                                        (r = "found" /\ \E j \in DOMAIN c.results :
                                                           j > i /\ c.results[j] = "found")]})
  /\ UNCHANGED <<prometheusProvider, prometheusPath, clusterName, prefs, replaced, plast,
                 nprobes,
                 resolvedBy>>
  /\ UNCHANGED <<proxyVars, storeVars>>

\* provider.getPrometheusService(apiClient) rejects: Promise.all rejects, the call throws
ProbeReject(c, i) ==
  /\ c.results[i] = "pending"
  /\ pcalls' = pcalls (-) SetToBag({c})
  /\ plast' = [c EXCEPT !.pc = "failed"]
  /\ UNCHANGED <<prometheusProvider, prometheusPath, clusterName, prefs, replaced, nprobes,
                 resolvedBy>>
  /\ UNCHANGED <<proxyVars, storeVars>>

(* getPrometheusProvider() forgetting this.prometheusProvider = service.id. *)
PinnedNever(c, service) == prometheusProvider

\* this.prometheusProvider = service.id, in getPrometheusProvider() only
Pinned(c, service) ==
  IF c.op = "getPrometheusProvider" THEN service.id ELSE prometheusProvider

\* this.prometheusPath = await this.resolvePrometheusPath(), in getPrometheusPath() only
Cached(c, service) ==
  IF c.op = "getPrometheusPath"
    THEN PathOf(<<service.namespace>>, <<service.service>>, <<service.port>>)
    ELSE prometheusPath

(* What the call returns: the service, the path stored, or the provider found. *)
Returned(c, service) ==
  [c EXCEPT !.pc = "done", !.svc = service,
            !.path = IF c.op = "getPrometheusPath" THEN Cached(c, service) ELSE "",
            !.prov = IF c.op = "getPrometheusProvider"
                       THEN FindProvider(Pinned(c, service)) ELSE ""]

(* What a call returned, as the calls of the same method still in flight see it. *)
ValueOf(d) == IF d.op = "getPrometheusPath" THEN d.path ELSE d.prov

SeePeer(d) ==
  [c \in PInFlight |->
     IF c.op = d.op /\ c.peer = "" /\ c.op # "getPrometheusService"
       THEN [c EXCEPT !.peer = ValueOf(d)] ELSE c]

(* await Promise.all(prometheusPromises) resumes in call c, whose probes have
   answered as recorded in d: the service is picked and the call stores and
   returns its result. *)
Join(c, d) ==
  LET service == PickService(d.provs, d.results)
      e == Returned(d, service)
      rest == pcalls (-) SetToBag({c})
  IN /\ prometheusProvider' = Pinned(d, service)
     /\ prometheusPath' = Cached(d, service)
     /\ plast' = e
     /\ pcalls' = BagOfAll(LAMBDA x : SeePeer(e)[x], rest)
     /\ resolvedBy' = IF d.op = "getPrometheusProvider" THEN "pin"
                      ELSE IF resolvedBy = "none" /\ d.provs = prometheusProviders
                             THEN "probe" ELSE resolvedBy

\* const resolvedPrometheusServices = await Promise.all(prometheusPromises), and what follows
ServiceReturn(c) ==
  /\ \A i \in DOMAIN c.results : c.results[i] # "pending"
  /\ Join(c, c)
  /\ UNCHANGED <<clusterName, prefs, replaced, nprobes>>
  /\ UNCHANGED <<proxyVars, storeVars>>

(* The same, with the probes' answers rs arriving and joined in one step. *)
RoundReturn(c, rs) ==
  /\ \A i \in DOMAIN c.results : c.results[i] = "pending"
  /\ Join(c, [c EXCEPT !.results = rs])
  /\ UNCHANGED <<clusterName, prefs, replaced, nprobes>>
  /\ UNCHANGED <<proxyVars, storeVars>>

(* setClusterPreferences() without the else branch: a path is stored when a
   location is given and kept otherwise. *)
SetClusterPreferencesKeepsPath(p) ==
  /\ prometheusProvider' = PrefProvider(p)
  /\ prometheusPath' = IF p.prometheus # <<>> THEN PrefPath(p) ELSE prometheusPath
  /\ clusterName' = PrefName(p)
  /\ prefs' = p
  /\ replaced' = IF p.prometheus = <<>> THEN PrefPath(prefs) ELSE ""
  /\ resolvedBy' = "none"
  /\ UNCHANGED <<pcalls, plast, nprobes>>
  /\ UNCHANGED <<proxyVars, storeVars>>

\* setClusterPreferences(clusterPreferences)
SetClusterPreferences(p) ==
  /\ prometheusProvider' = PrefProvider(p)
  /\ prometheusPath' = PrefPath(p)
  /\ clusterName' = PrefName(p)
  /\ prefs' = p
  /\ replaced' = IF p.prometheus = <<>> THEN PrefPath(prefs) ELSE ""
  /\ resolvedBy' = "none"
  /\ UNCHANGED <<pcalls, plast, nprobes>>
  /\ UNCHANGED <<proxyVars, storeVars>>

(* The handler as constructed with preferences p: the constructor applies them. *)
InitProm(p) ==
  /\ prometheusProvider = PrefProvider(p)
  /\ prometheusPath = PrefPath(p)
  /\ clusterName = PrefName(p)
  /\ prefs = p
  /\ replaced = ""
  /\ pcalls = EmptyBag
  /\ plast = NoPCall
  /\ nprobes = 0
  /\ resolvedBy = "none"

(***************************************************************************)
(* ClusterStore.  The persisted store maps top-level keys to values; the   *)
(* cluster records are the array under the key "clusters".  store.clusters *)
(* is that array (<<>> when the key is absent, as get("clusters", [])      *)
(* answers), store.topKeys the other top-level keys present.  get() hands  *)
(* out a value read from the persisted store, set() and delete() persist.  *)
(* Every method of ClusterStore is synchronous: one action each.           *)
(***************************************************************************)

(* Cluster ids; an id is any string, the key of the array included. *)
ClusterIds == {"a", "b", "clusters"}

Workspaces == {"w1", "w2"}

(* ClusterBaseInfo values handed to the store: the persisted fields and one more. *)
ClusterInfos ==
  [id : ClusterIds, kubeConfigPath : {"kubeconfig"}, contextName : {"ctx"},
   preferences : {"prefs"}, workspace : Workspaces, port : {9000}]

NoCluster == [id |-> "", kubeConfigPath |-> "", contextName |-> "", preferences |-> "",
              workspace |-> ""]

(* Top-level keys other than "clusters" the store may hold when it is opened. *)
OtherKeys == {"a"}

\* this.store.delete(key)
StoreDelete(st, key) ==
  IF key = "clusters"
    THEN [st EXCEPT !.clusters = <<>>]
    ELSE [st EXCEPT !.topKeys = st.topKeys \ {key}]

\* getAllClusters(): this.store.get("clusters", [])
getAllClusters(st) == st.clusters

\* findIndex((cbi) => cbi.id === id): 0 stands for -1
FindIndex(clusterBaseInfos, id) ==
  IF \E i \in DOMAIN clusterBaseInfos : clusterBaseInfos[i].id = id
    THEN CHOOSE i \in DOMAIN clusterBaseInfos :
           /\ clusterBaseInfos[i].id = id
           /\ \A j \in 1..(i - 1) : clusterBaseInfos[j].id # id
    ELSE 0

\* clusterBaseInfos.splice(index, 1)
Splice(clusterBaseInfos, index) ==
  [i \in 1..(Len(clusterBaseInfos) - 1) |->
     IF i < index THEN clusterBaseInfos[i] ELSE clusterBaseInfos[i + 1]]

\* removeCluster(id)
removeCluster(st, id) ==
  LET deleted == StoreDelete(st, id)
      clusterBaseInfos == getAllClusters(deleted)
      index == FindIndex(clusterBaseInfos, id)
  IN IF index # 0
       THEN [deleted EXCEPT !.clusters = Splice(clusterBaseInfos, index)]
       ELSE deleted

(* The forEach of removeClustersByWorkspace over the array it read, from
   element i on; st is the store as the removals so far have left it. *)
RECURSIVE RemoveEach(_, _, _, _)
RemoveEach(st, all, i, workspace) ==
  IF i > Len(all) THEN st
  ELSE RemoveEach(IF all[i].workspace = workspace THEN removeCluster(st, all[i].id) ELSE st,
                  all, i + 1, workspace)

\* removeClustersByWorkspace(workspace)
removeClustersByWorkspace(st, workspace) ==
  RemoveEach(st, getAllClusters(st), 1, workspace)

\* getCluster(id): getAllClusterObjects().find(...), null when there is none
getCluster(st, id) ==
  LET all == getAllClusters(st)
      index == FindIndex(all, id)
  IN IF index # 0 THEN all[index] ELSE NoCluster

\* const storable = { id, kubeConfigPath, contextName, preferences, workspace }
Storable(cluster) ==
  [id |-> cluster.id, kubeConfigPath |-> cluster.kubeConfigPath,
   contextName |-> cluster.contextName, preferences |-> cluster.preferences,
   workspace |-> cluster.workspace]

(* storeCluster() that always appends. *)
storeClusterAppends(st, cluster) ==
  [st EXCEPT !.clusters = Append(getAllClusters(st), Storable(cluster))]

\* storeCluster(cluster)
storeCluster(st, cluster) ==
  LET clusters == getAllClusters(st)
      index == FindIndex(clusters, cluster.id)
      storable == Storable(cluster)
  IN [st EXCEPT !.clusters = IF index = 0 THEN Append(clusters, storable)
                             ELSE [clusters EXCEPT ![index] = storable]]

\* storeClusters(clusters): for each, removeCluster(cluster.id) then storeCluster(cluster)
RECURSIVE storeClusters(_, _)
storeClusters(st, clusters) ==
  IF clusters = <<>> THEN st
  ELSE storeClusters(storeCluster(removeCluster(st, Head(clusters).id), Head(clusters)),
                     Tail(clusters))

NoInfo == [id |-> "", kubeConfigPath |-> "", contextName |-> "", preferences |-> "",
           workspace |-> "", port |-> 0]

NoOp == [name |-> "none", id |-> "", workspace |-> "", cluster |-> NoInfo,
         result |-> NoCluster, after |-> "none", afterId |-> ""]

InitStore ==
  /\ store = [clusters |-> <<>>, topKeys |-> {}]
  /\ lastOp = NoOp

(* The store as opened: no clusters yet, other top-level keys may be there. *)
InitStoreAny ==
  /\ \E keys \in SUBSET OtherKeys : store = [clusters |-> <<>>, topKeys |-> keys]
  /\ lastOp = NoOp

StoreCluster(cluster) ==
  /\ store' = storeCluster(store, cluster)
  /\ lastOp' = [NoOp EXCEPT !.name = "storeCluster", !.cluster = cluster]
  /\ UNCHANGED <<proxyVars, promVars>>

StoreClusters(clusters) ==
  /\ store' = storeClusters(store, clusters)
  /\ lastOp' = [NoOp EXCEPT !.name = "storeClusters"]
  /\ UNCHANGED <<proxyVars, promVars>>

RemoveCluster(id) ==
  /\ store' = removeCluster(store, id)
  /\ lastOp' = [NoOp EXCEPT !.name = "removeCluster", !.id = id]
  /\ UNCHANGED <<proxyVars, promVars>>

RemoveClustersByWorkspace(workspace) ==
  /\ store' = removeClustersByWorkspace(store, workspace)
  /\ lastOp' = [NoOp EXCEPT !.name = "removeClustersByWorkspace", !.workspace = workspace]
  /\ UNCHANGED <<proxyVars, promVars>>

GetCluster(id) ==
  /\ lastOp' = [NoOp EXCEPT !.name = "getCluster", !.id = id, !.result = getCluster(store, id),
                        !.after = lastOp.name, !.afterId = lastOp.id]
  /\ UNCHANGED store
  /\ UNCHANGED <<proxyVars, promVars>>

Init == InitProxy /\ InitProm(NoPrefs) /\ InitStore

InitAny == InitProxy /\ InitStore /\ \E p \in PrefsSet : InitProm(p)

InitOpened == InitProxy /\ InitProm(NoPrefs) /\ InitStoreAny

Next ==
  \/ StartInit
  \/ \E w \in BOOLEAN : StartGetApiTarget(w)
  \/ StartEnsureServer
  \/ \E c \in InFlight, p \in Ports : AllocDone(c, p)
  \/ \E c \in InFlight, error \in PortErrors : AllocFail(c, error)
  \/ \E c \in InFlight : ApiTargetReturn(c)
  \/ \E c \in InFlight : EnsureConstruct(c)
  \/ \E c \in InFlight : RunDone(c)
  \/ StopServer

Spec == Init /\ [][Next]_vars

NextProm ==
  \/ StartGetPrometheusService
  \/ StartGetPrometheusPath
  \/ StartGetPrometheusProvider
  \/ \E c \in PInFlight, i \in 1..Len(prometheusProviders), r \in {"absent", "found"} :
       i \in DOMAIN c.results /\ ProbeReturn(c, i, r)
  \/ \E c \in PInFlight, i \in 1..Len(prometheusProviders) :
       i \in DOMAIN c.results /\ ProbeReject(c, i)
  \/ \E c \in PInFlight : ServiceReturn(c)

SpecProm == InitAny /\ [][NextProm]_vars

(* The preferences replaced at any moment, each round of probes joined in one step. *)
NextPrefs ==
  \/ StartGetPrometheusService
  \/ StartGetPrometheusPath
  \/ StartGetPrometheusProvider
  \/ \E c \in PInFlight : \E rs \in [DOMAIN c.results -> {"absent", "found"}] : RoundReturn(c, rs)
  \/ \E c \in PInFlight, i \in 1..Len(prometheusProviders) :
       i \in DOMAIN c.results /\ ProbeReject(c, i)
  \/ \E p \in PrefsSet : SetClusterPreferences(p)

SpecPrefs == InitAny /\ [][NextPrefs]_vars

(* The batches storeClusters() is called with. *)
Batches == UNION {[1..n -> ClusterInfos] : n \in 0..MaxBatch}

NextStore ==
  \/ \E cluster \in ClusterInfos : StoreCluster(cluster)
  \/ \E clusters \in Batches : StoreClusters(clusters)
  \/ \E id \in ClusterIds : RemoveCluster(id)
  \/ \E workspace \in Workspaces : RemoveClustersByWorkspace(workspace)
  \/ \E id \in ClusterIds : GetCluster(id)

SpecStore == InitOpened /\ [][NextStore]_vars

(***************************************************************************)
(* Proxy port, proxy process and API target: the properties.               *)
(***************************************************************************)

(* Number of calls suspended on getFreePort(). *)
NumAllocating ==
  LET A == {c \in InFlight : c.pc = "allocating"} IN
    BagCardinality([c \in A |-> calls[c]])

(* The ports resolveProxyPort() has given to the calls in flight and to the last one ended. *)
PortsGiven == {c.port : c \in InFlight \cup {last}} \ {0}

RunningProcs == {p \in DOMAIN procs : procs[p].state = "running"}

(* C1: resolveProxyPort() calls that overlap before the first allocation
   completes invoke getFreePort() once in all (never two invocations
   pending together) and all resolve to the same port. *)
C1_SingleFlightPort == NumAllocating <= 1 /\ Cardinality(PortsGiven) <= 1

(* C2: under any interleaving of ensureServer() and stopServer(), at most
   one proxy process of the handler is started and not exited. *)
C2_AtMostOneProcess == Cardinality(RunningProcs) <= 1

(* C3: an ensureServer() that begins after an earlier ensureServer() has
   completed, with no stopServer() since that one began, ends at once
   having constructed no process; an ensureServer() that begins after
   stopServer() exited a process constructs and starts a process other
   than the exited one, which stays exited. *)
C3_EnsureStopEnsure ==
  \A c \in InFlight \cup {last} :
    c.op = "ensureServer" =>
      /\ c.afterEnsure => c.pc = "done" /\ c.proc = 0
      /\ c.afterStop # 0 /\ c.pc \in {"running", "done"} =>
            /\ c.proc \in DOMAIN procs
            /\ c.proc # c.afterStop
            /\ procs[c.afterStop].state = "exited"

(* C3's case: a first call constructed process 1, a second call after it
   was a no-op, stopServer() exited process 1, and a third call has
   constructed and started process 2. *)
C3_Witness ==
  /\ last.op = "ensureServer" /\ last.afterEnsure /\ last.pc = "done" /\ last.proc = 0
  /\ \E c \in InFlight :
        /\ c.op = "ensureServer" /\ c.afterStop = 1 /\ c.pc = "running" /\ c.proc = 2
        /\ procs[1].state = "exited" /\ procs[2].state = "running"
        /\ proxyServer = 2

(* C4: once proxyPort holds a resolved value, no step changes it. *)
C4_PortNeverChanges == [][proxyPort # 0 => proxyPort' = proxyPort]_vars

(* C11: a getApiTarget(false) call that starts after an earlier
   getApiTarget(false) call has completed returns at once the very
   descriptor that call returned, whose timeout is 30 s, and builds none,
   whatever getApiTarget(true) calls came in between. *)
C11_CachedTargetStable ==
  \A c \in InFlight \cup {last} :
    c.op = "getApiTarget" /\ ~c.watch /\ c.afterTarget # 0 =>
      /\ c.pc = "done"
      /\ c.target.id = c.afterTarget
      /\ c.target.timeout = 30000

(* C12: every getApiTarget(true) call that returns has built a new
   descriptor with the 4-hour timeout and left the cached non-watch target
   as it was, also when one was cached; no getApiTarget(false) call returns
   a descriptor with the 4-hour timeout and no getApiTarget(true) call one
   with the 30 s timeout. *)
C12_WatchNeverCached ==
  /\ [](\A c \in InFlight \cup {last} :
          c.op = "getApiTarget" /\ c.pc = "done" =>
            c.target.timeout = IF c.watch THEN 4 * 60 * 60 * 1000 ELSE 30000)
  /\ [][last' # last /\ last'.op = "getApiTarget" /\ last'.watch /\ last'.pc = "done" =>
          /\ ntargets' = ntargets + 1
          /\ last'.target.id = ntargets'
          /\ apiTarget' = apiTarget]_vars

(* C12's case: a non-watch target is cached and a getApiTarget(true) call made
   after it was cached has returned another descriptor, with the 4-hour
   timeout; the cached one still has the 30 s timeout. *)
C12_Witness ==
  /\ last.op = "getApiTarget" /\ last.watch /\ last.pc = "done"
  /\ last.afterTarget # 0
  /\ last.target.timeout = 14400000
  /\ apiTarget # NoTarget /\ apiTarget.timeout = 30000
  /\ last.target.id # apiTarget.id

(* A call suspended on getFreePort() fails in this step. *)
AllocFails ==
  \E c \in InFlight : c.pc = "allocating" /\ calls' = Drop(c) /\ last'.pc = "failed"

(* C15: when getFreePort() fails, the call that awaited it fails with one of
   the allocator's errors, having obtained no port, constructed no process
   and built no descriptor; the step leaves proxyPort, the process handle
   and the cached API target as they were and invokes getFreePort() again
   for no call (no retry); so no process and no cached target ever exists
   with an unresolved port. *)
C15_AllocFailurePropagates ==
  /\ [](\A p \in DOMAIN procs : procs[p].port \in Ports)
  /\ [](apiTarget # NoTarget => apiTarget.port \in Ports)
  /\ [][AllocFails =>
          /\ last'.err \in PortErrors
          /\ last'.port = 0 /\ last'.proc = 0 /\ last'.target = NoTarget
          /\ proxyPort' = proxyPort
          /\ proxyServer' = proxyServer /\ procs' = procs
          /\ apiTarget' = apiTarget /\ ntargets' = ntargets
          /\ NumAllocating' = NumAllocating - 1]_vars

(* C15's case: an ensureServer() call has failed with the allocator's error;
   no port is resolved, no handle and no API target is stored. *)
C15_Witness ==
  /\ last.op = "ensureServer" /\ last.pc = "failed" /\ last.err = "EADDRINUSE"
  /\ proxyPort = 0 /\ proxyServer = 0 /\ procs = <<>> /\ apiTarget = NoTarget

(* C19: whenever the handler holds a process handle, the port that process
   was constructed with is the handler's proxyPort, and so is the target
   port of the cached non-watch API target when there is one. *)
C19_PortsAgree ==
  proxyServer # 0 =>
    /\ procs[proxyServer].port = proxyPort
    /\ apiTarget # NoTarget => apiTarget.port = proxyPort

(***************************************************************************)
(* Prometheus resolution: the properties.                                  *)
(***************************************************************************)

(* A step of setClusterPreferences(): the only step that starts, resumes and
   ends no prometheus call. *)
PrefsApplied == pcalls' = pcalls /\ plast' = plast /\ nprobes' = nprobes

(* The location has namespace, service and port all set. *)
IsFullLocation(p) ==
  /\ p.prometheus # <<>>
  /\ p.prometheus[1].namespace # <<>>
  /\ p.prometheus[1].service # <<>>
  /\ p.prometheus[1].port # <<>>

(* Number of calls of method op awaiting their probes. *)
NumProbing(op) ==
  LET A == {c \in PInFlight : c.op = op} IN
    BagCardinality([c \in A |-> pcalls[c]])

Ended == plast.pc = "done"

(* C5: with no provider pinned, the service obtained is the answer of the
   first provider in list order whose probe found one, in whatever order
   the probes answered. *)
C5_FirstInListOrder ==
  Ended /\ plast.provs = prometheusProviders
        /\ (\E i \in DOMAIN plast.results : plast.results[i] = "found")
    => \E i \in DOMAIN plast.results :
         /\ plast.results[i] = "found"
         /\ \A j \in 1..(i - 1) : plast.results[j] = "absent"
         /\ plast.svc = ServiceOf(prometheusProviders[i])

(* C5's case: providers [lens, helm, operator], lens absent, helm and operator
   found, operator's probe answering before helm's; helm's service returned. *)
C5_Witness ==
  /\ Ended /\ plast.op = "getPrometheusService"
  /\ plast.provs = prometheusProviders
  /\ plast.results = <<"absent", "found", "found">>
  /\ plast.overtaken
  /\ plast.svc.id = "helm"

(* C6: a probe that rejects is treated as "no match": no prometheus call
   fails because of it. *)
C6_ProbeFailureContained == plast.pc # "failed"

(* C7: when every candidate's probe answers absent, the service obtained is
   the default: id "lens", namespace "lens-metrics", service "prometheus",
   port 80. *)
C7_DefaultService ==
  Ended /\ plast.provs # <<>> /\ (\A i \in DOMAIN plast.results : plast.results[i] = "absent")
    => plast.svc = [id |-> "lens", namespace |-> "lens-metrics",
                    service |-> "prometheus", port |-> 80]

(* C7's case: getPrometheusService() probed all three providers, all absent. *)
C7_Witness ==
  /\ Ended /\ plast.op = "getPrometheusService"
  /\ plast.results = <<"absent", "absent", "absent">>
  /\ plast.svc.namespace = "lens-metrics" /\ plast.svc.port = 80

(* C8: a getPrometheusProvider() call made while the active preferences set
   the provider type X returns provider X and starts no probe. *)
C8_ExplicitProviderWins ==
  \A c \in PInFlight \cup {plast} :
    c.op = "getPrometheusProvider" /\ c.prefType # "" =>
      c.pc = "done" /\ c.provs = <<>> /\ c.prov = c.prefType

(* C9: getPrometheusPath() (or getPrometheusProvider()) calls that overlap
   before the first resolution completes share one probe round (never two
   rounds of the same method in flight) and return the same value. *)
C9_SingleProbeRound ==
  /\ \A op \in {"getPrometheusPath", "getPrometheusProvider"} : NumProbing(op) <= 1
  /\ Ended /\ plast.peer # "" => ValueOf(plast) = plast.peer

(* C10 as claimed: after any resolution has succeeded by probing the full
   list, every later call (preferences unchanged) probes at most one
   provider. *)
C10_PinnedByAnyResolution ==
  \A c \in PInFlight \cup {plast} : c.after # "none" => Len(c.provs) <= 1

(* C10 as amended: after getPrometheusProvider() has resolved by probing,
   every later call (preferences unchanged) probes at most one provider,
   never the full list. *)
C10_PinnedByGetProvider ==
  \A c \in PInFlight \cup {plast} : c.after = "pin" => Len(c.provs) <= 1

(* C10's case: no provider type in the preferences, getPrometheusProvider()
   pinned an id by probing, and a later call has probed that one provider. *)
C10_Witness ==
  /\ prefs.type = ""
  /\ Ended /\ plast.after = "pin" /\ Len(plast.provs) = 1
  /\ plast.provs[1] = prometheusProvider

(* C13: setClusterPreferences(p) applies its rules in order: a provider type
   in p becomes the fixed provider id; else a location with namespace,
   service and port all set makes the path "namespace/services/service:port"
   (which getPrometheusPath() then returns without probing); in every other
   case, a partly set location included, the path is left unresolved. *)
C13_RulesInOrder ==
  [][PrefsApplied =>
       LET p == prefs' IN
         /\ p.type # "" => prometheusProvider' = p.type
         /\ p.type = "" /\ IsFullLocation(p) =>
              prometheusPath' = p.prometheus[1].namespace[1] \o "/services/" \o
                                p.prometheus[1].service[1] \o ":" \o
                                ToString(p.prometheus[1].port[1])
         /\ p.type = "" /\ ~IsFullLocation(p) => prometheusPath' = ""]_vars

(* C20: whenever the preferences applied last carry a location (namespace,
   service and port) and no prometheus call is in flight, the stored path is
   "namespace/services/service:port" of that location; a getPrometheusPath()
   round begun before setClusterPreferences() and ended after it does not
   replace the configured path. *)
C20_ConfiguredPathKept ==
  IsFullLocation(prefs) /\ pcalls = EmptyBag =>
    prometheusPath = prefs.prometheus[1].namespace[1] \o "/services/" \o
                     prefs.prometheus[1].service[1] \o ":" \o
                     ToString(prefs.prometheus[1].port[1])

(* C14: while the preferences applied last carry no location, having
   replaced preferences that configured a path: setClusterPreferences()
   left the path unresolved, the stored path is never the replaced one,
   and every getPrometheusPath() call that returns returns a path resolved
   by probing, never the replaced one. *)
C14_ReplacedPathInvalidated ==
  /\ [](prefs.prometheus = <<>> /\ replaced # "" => prometheusPath # replaced)
  /\ [][PrefsApplied /\ prefs'.prometheus = <<>> => prometheusPath' = ""]_vars
  /\ [][/\ prefs.prometheus = <<>> /\ replaced # ""
        /\ plast' # plast /\ plast'.op = "getPrometheusPath" /\ plast'.pc = "done"
        => /\ plast'.path # replaced
           /\ plast'.path = prometheusPath'
           /\ \E id \in {"lens", "helm", "operator"} :
                 plast'.path \in {id \o "-ns/services/" \o id \o "-svc:9090",
                                  "lens-metrics/services/prometheus:80"}]_vars

(* C14's case: preferences configuring "monitoring/services/prom:9090" were
   replaced by preferences with no location, and a getPrometheusPath() call
   begun after that has probed and returned helm's path. *)
C14_Witness ==
  /\ prefs.prometheus = <<>> /\ replaced = "monitoring/services/prom:9090"
  /\ plast.op = "getPrometheusPath" /\ plast.pc = "done"
  /\ plast.provs # <<>>
  /\ plast.path = "helm-ns/services/helm-svc:9090"
  /\ prometheusPath = plast.path

(***************************************************************************)
(* ClusterStore: the properties.                                           *)
(***************************************************************************)

(* The records of a list of clusters. *)
Records(clusters) == {clusters[i] : i \in DOMAIN clusters}

(* C16: removeClustersByWorkspace(w) removes exactly the records whose
   workspace is w: afterwards no record has workspace w, and the records
   with another workspace are those there were before, unchanged. *)
C16_RemovesExactlyWorkspace ==
  [][lastOp'.name = "removeClustersByWorkspace" =>
       LET w == lastOp'.workspace IN
         /\ \A x \in Records(store'.clusters) : x.workspace # w
         /\ Records(store'.clusters) = {x \in Records(store.clusters) : x.workspace # w}]_vars

(* C17: getCluster(id) right after removeCluster(id) returns null, and
   removeCluster(id) leaves the records of every other id as they were. *)
C17_RemoveThenGet ==
  /\ [](lastOp.name = "getCluster" /\ lastOp.after = "removeCluster" /\ lastOp.afterId = lastOp.id
          => lastOp.result = NoCluster)
  /\ [][lastOp'.name = "removeCluster" =>
          {x \in Records(store'.clusters) : x.id # lastOp'.id}
            = {x \in Records(store.clusters) : x.id # lastOp'.id}]_vars

(* C18: no two stored records share an id; after storeCluster(record) the
   stored list has exactly one record with record.id, equal to record on
   id, kubeConfigPath, contextName, preferences and workspace, and the
   records of the other ids are as they were. *)
C18_StoreClusterUpserts ==
  /\ [](\A i, j \in DOMAIN store.clusters :
          store.clusters[i].id = store.clusters[j].id => i = j)
  /\ [][lastOp'.name = "storeCluster" =>
          LET record == lastOp'.cluster
              all == getAllClusters(store')
              same == {i \in DOMAIN all : all[i].id = record.id}
          IN /\ Cardinality(same) = 1
             /\ \A i \in same :
                   /\ all[i].kubeConfigPath = record.kubeConfigPath
                   /\ all[i].contextName = record.contextName
                   /\ all[i].preferences = record.preferences
                   /\ all[i].workspace = record.workspace
             /\ {x \in Records(all) : x.id # record.id}
                  = {x \in Records(store.clusters) : x.id # record.id}]_vars

(* C18's case: a record of id "a" in workspace "w1" was stored beside a
   record of id "b", and storeCluster() has replaced it by one in workspace
   "w2"; the list still has two records. *)
C18_Witness ==
  /\ lastOp.name = "storeCluster" /\ lastOp.cluster.id = "a" /\ lastOp.cluster.workspace = "w2"
  /\ Len(store.clusters) = 2
  /\ store.clusters[1].id = "a" /\ store.clusters[1].workspace = "w2"
  /\ store.clusters[2].id = "b"

====
